---- MODULE Spec2Model ----
(***************************************************************************)
(* Model of download_from_google_Drive.py: the name/type resolver          *)
(* (getMimeTypeAndSuffix), the name sanitizer (makePcFileName), the local  *)
(* path builder (getDownloadFileName) and the recursive tree walker        *)
(* (downloadAllFilesInFolder, started by downloadEverythingFromDrive).     *)
(*                                                                         *)
(* Python strings that the code takes apart (titles, suffixes, paths) are  *)
(* sequences of one-character strings; MIME types, which the code only     *)
(* compares, are TLA+ strings.                                             *)
(***************************************************************************)
EXTENDS Integers, Sequences, FiniteSets, Bags, TLC

VARIABLES
    windows,    \* TRUE: os.path is ntpath, FALSE: os.path is posixpath
    traceFlag,  \* the traceFlag parameter threaded through every call
    store,      \* the remote store: store[id] is the entry with that id
    pc,         \* "init", "running", "done", "aborted"; or the pure-function phases
    error,      \* the exception that ended the run, "none" while there is none
    stack,      \* the frames of downloadAllFilesInFolder, innermost last
    dirs,       \* the directories of the local file system
    files,      \* the files of the local file system: path -> id of the entry written
    printed,    \* the lines the last step printed, each [kind, title, id, path]
    notices,    \* how many diagnostic notices (form skipped, download failed) were printed so far
    visited,    \* bag of [cid, id]: entry id went through the body of the inner loop in a call on container cid
    downloads,  \* the GetContentFile calls made: set of [dir, path, id, mimeType]
    lastFetch,  \* outcome of the GetContentFile call of the last step, "none" if it made none
    arg,        \* input of the pure function under check
    res         \* results of the pure function under check

vars == <<windows, traceFlag, store, pc, error, stack, dirs, files, printed, notices,
          visited, downloads, lastFetch, arg, res>>

(***************************************************************************)
(* Bounds                                                                  *)
(***************************************************************************)
MaxEntries == 2
MaxDepth == 4
MaxLen == 2
MaxTitleLen == 3
MaxIndex == 2

Max(S) == CHOOSE x \in S : \A y \in S : y <= x
Min(S) == CHOOSE x \in S : \A y \in S : x <= y

RECURSIVE StringsUpTo(_, _)
StringsUpTo(alphabet, n) ==
    IF n = 0 THEN {<<>>}
    ELSE LET shorter == StringsUpTo(alphabet, n - 1)
         IN shorter \cup {Append(s, c) : s \in shorter, c \in alphabet}

(***************************************************************************)
(* makePcFileName, lines 133-150                                           *)
(***************************************************************************)
IllegalChars ==
    {"~", "#", "%", "&", "*", "{", "}", "/", "\\", ":", "<", ">", "?", "|", "\""}

\* str.replace(old, new) for a one-character old and a one-character new
replace(s, old, new) == [k \in 1..Len(s) |-> IF s[k] = old THEN new ELSE s[k]]

makePcFileName_NoPipe(inFilename, tf) ==
    LET r1 == replace(inFilename, "~", "_")
        r2 == replace(r1, "#", "_")
        r3 == replace(r2, "%", "_")
        r4 == replace(r3, "&", "_")
        r5 == replace(r4, "*", "_")
        r6 == replace(r5, "{", "_")
        r7 == replace(r6, "}", "_")
        r8 == replace(r7, "/", "_")
        r9 == replace(r8, "\\", "_")
        r10 == replace(r9, ":", "_")
        r11 == replace(r10, "<", "_")
        r12 == replace(r11, ">", "_")
        r13 == replace(r12, "?", "_")
    IN replace(r13, "\"", "_")

makePcFileName(inFilename, tf) ==
    LET r1 == replace(inFilename, "~", "_")
        r2 == replace(r1, "#", "_")
        r3 == replace(r2, "%", "_")
        r4 == replace(r3, "&", "_")
        r5 == replace(r4, "*", "_")
        r6 == replace(r5, "{", "_")
        r7 == replace(r6, "}", "_")
        r8 == replace(r7, "/", "_")
        r9 == replace(r8, "\\", "_")
        r10 == replace(r9, ":", "_")
        r11 == replace(r10, "<", "_")
        r12 == replace(r11, ">", "_")
        r13 == replace(r12, "?", "_")
        r14 == replace(r13, "|", "_")
    IN replace(r14, "\"", "_")

(***************************************************************************)
(* getMimeTypeAndSuffix, lines 48-116                                      *)
(***************************************************************************)
FolderMime == "application/vnd.google-apps.folder"
FormMime == "application/vnd.google-apps.form"
DocxMime == "application/vnd.openxmlformats-officedocument.wordprocessingml.document"
OdtMime == "application/vnd.oasis.opendocument.text"
RtfMime == "application/rtf"
XlsxMime == "application/vnd.openxmlformats-officedocument.spreadsheetml.sheet"
OdsMime == "application/x-vnd.oasis.opendocument.spreadsheet"
CsvMime == "text/csv"
TsvMime == "text/tsv"
PptxMime == "application/vnd.openxmlformats-officedocument.presentationml.presentation"
OdpMime == "application/vnd.oasis.opendocument.presentation"
JpegMime == "image/jpeg"
PngMime == "image/png"
SvgMime == "image/svg"
PdfMime == "application/pdf"

\* metadata is [mimeType, hasExportLinks, exportLinks]: hasExportLinks is
\* 'exportLinks' in metadata, exportLinks the keys of metadata['exportLinks']
getMimeTypeAndSuffix_OdtFirst(metadata, tf) ==
    IF ~metadata.hasExportLinks
    THEN [mimeType |-> metadata.mimeType, suffix |-> <<>>]
    ELSE IF OdtMime \in metadata.exportLinks
    THEN [mimeType |-> OdtMime, suffix |-> <<".", "o", "d", "t">>]
    ELSE IF DocxMime \in metadata.exportLinks
    THEN [mimeType |-> DocxMime, suffix |-> <<".", "d", "o", "c", "x">>]
    ELSE IF RtfMime \in metadata.exportLinks
    THEN [mimeType |-> RtfMime, suffix |-> <<".", "r", "t", "f">>]
    ELSE IF XlsxMime \in metadata.exportLinks
    THEN [mimeType |-> XlsxMime, suffix |-> <<".", "x", "l", "s", "x">>]
    ELSE IF OdsMime \in metadata.exportLinks
    THEN [mimeType |-> OdsMime, suffix |-> <<".", "o", "d", "s">>]
    ELSE IF CsvMime \in metadata.exportLinks
    THEN [mimeType |-> CsvMime, suffix |-> <<".", "c", "s", "v">>]
    ELSE IF TsvMime \in metadata.exportLinks
    THEN [mimeType |-> TsvMime, suffix |-> <<".", "t", "s", "v">>]
    ELSE IF PptxMime \in metadata.exportLinks
    THEN [mimeType |-> PptxMime, suffix |-> <<".", "p", "p", "t", "x">>]
    ELSE IF OdpMime \in metadata.exportLinks
    THEN [mimeType |-> OdpMime, suffix |-> <<".", "o", "d", "p">>]
    ELSE IF JpegMime \in metadata.exportLinks
    THEN [mimeType |-> JpegMime, suffix |-> <<".", "j", "p", "g">>]
    ELSE IF PngMime \in metadata.exportLinks
    THEN [mimeType |-> PngMime, suffix |-> <<".", "p", "n", "g">>]
    ELSE IF SvgMime \in metadata.exportLinks
    THEN [mimeType |-> SvgMime, suffix |-> <<".", "s", "v", "g">>]
    ELSE [mimeType |-> PdfMime, suffix |-> <<".", "p", "d", "f">>]

getMimeTypeAndSuffix(metadata, tf) ==
    IF ~metadata.hasExportLinks
    THEN [mimeType |-> metadata.mimeType, suffix |-> <<>>]
    ELSE IF DocxMime \in metadata.exportLinks
    THEN [mimeType |-> DocxMime, suffix |-> <<".", "d", "o", "c", "x">>]
    ELSE IF OdtMime \in metadata.exportLinks
    THEN [mimeType |-> OdtMime, suffix |-> <<".", "o", "d", "t">>]
    ELSE IF RtfMime \in metadata.exportLinks
    THEN [mimeType |-> RtfMime, suffix |-> <<".", "r", "t", "f">>]
    ELSE IF XlsxMime \in metadata.exportLinks
    THEN [mimeType |-> XlsxMime, suffix |-> <<".", "x", "l", "s", "x">>]
    ELSE IF OdsMime \in metadata.exportLinks
    THEN [mimeType |-> OdsMime, suffix |-> <<".", "o", "d", "s">>]
    ELSE IF CsvMime \in metadata.exportLinks
    THEN [mimeType |-> CsvMime, suffix |-> <<".", "c", "s", "v">>]
    ELSE IF TsvMime \in metadata.exportLinks
    THEN [mimeType |-> TsvMime, suffix |-> <<".", "t", "s", "v">>]
    ELSE IF PptxMime \in metadata.exportLinks
    THEN [mimeType |-> PptxMime, suffix |-> <<".", "p", "p", "t", "x">>]
    ELSE IF OdpMime \in metadata.exportLinks
    THEN [mimeType |-> OdpMime, suffix |-> <<".", "o", "d", "p">>]
    ELSE IF JpegMime \in metadata.exportLinks
    THEN [mimeType |-> JpegMime, suffix |-> <<".", "j", "p", "g">>]
    ELSE IF PngMime \in metadata.exportLinks
    THEN [mimeType |-> PngMime, suffix |-> <<".", "p", "n", "g">>]
    ELSE IF SvgMime \in metadata.exportLinks
    THEN [mimeType |-> SvgMime, suffix |-> <<".", "s", "v", "g">>]
    ELSE [mimeType |-> PdfMime, suffix |-> <<".", "p", "d", "f">>]

(***************************************************************************)
(* getDownloadFileName, lines 166-177                                      *)
(***************************************************************************)
\* str.rfind(c) + 1: the last position of c in p, 0 when c does not occur
rfind(p, c) ==
    LET hits == {k \in 1..Len(p) : p[k] = c}
    IN IF hits = {} THEN 0 ELSE Max(hits)

\* os.path.splitext: the extension starts at the last dot that follows the
\* last separator and is preceded by a character of the name that is no dot
splitext(p) ==
    LET sepIndex == IF windows
                    THEN Max({rfind(p, "\\"), rfind(p, "/")})
                    ELSE rfind(p, "/")
        dotIndex == rfind(p, ".")
    IN IF /\ dotIndex > sepIndex
          /\ \E k \in (sepIndex + 1)..(dotIndex - 1) : p[k] # "."
       THEN <<SubSeq(p, 1, dotIndex - 1), SubSeq(p, dotIndex, Len(p))>>
       ELSE <<p, <<>>>>

Digits == <<"0", "1", "2", "3", "4", "5", "6", "7", "8", "9">>

\* str(i) for i >= 0
RECURSIVE str(_)
str(i) ==
    IF i < 10 THEN <<Digits[i + 1]>>
    ELSE str(i \div 10) \o <<Digits[(i % 10) + 1]>>

getDownloadFileName(hostRootDir, driveName, suffix, i, tf) ==
    LET parts == splitext(driveName)
        fileName == parts[1]
        extension == IF parts[2] = <<>> THEN suffix ELSE parts[2]
        retval0 == hostRootDir \o <<"/">> \o makePcFileName(fileName, tf)
        retval1 == IF i > 0 THEN retval0 \o <<"_">> \o str(i) ELSE retval0
    IN retval1 \o extension

(***************************************************************************)
(* The remote store and its list operation (the collaborator consumed at   *)
(* lines 206 and 220)                                                      *)
(***************************************************************************)
RootId == 0

\* the hostRootDir given to downloadEverythingFromDrive
HostRoot == <<"r">>

\* A title without an extension, and the same title with one
TitleA == <<"a">>
TitleAPdf == <<"a", ".", "p", "d", "f">>
Titles == {TitleA, TitleAPdf}

\* What an entry is, apart from where it is: 'exportLinks' is absent, or
\* present with a key that none of the twelve matches; a form has none.
EntryKinds ==
    {[title |-> t, mimeType |-> m, hasExportLinks |-> h,
      exportLinks |-> IF h THEN {PdfMime} ELSE {}, trashed |-> tr] :
        t \in Titles, m \in {FolderMime, PdfMime}, h \in BOOLEAN, tr \in BOOLEAN}
    \cup
    {[title |-> t, mimeType |-> FormMime, hasExportLinks |-> FALSE,
      exportLinks |-> {}, trashed |-> tr] :
        t \in Titles, tr \in BOOLEAN}

RECURSIVE Up(_, _, _)
Up(par, e, k) == IF e = RootId \/ k = 0 THEN e ELSE Up(par, par[e], k - 1)

\* The parent functions of n entries in which no entry is its own ancestor
Forests ==
    [n \in 1..MaxEntries |->
        {par \in [1..n -> 0..n] : \A e \in 1..n : Up(par, e, n) = RootId}]

\* The parent of every entry is the root or a folder, and what lies in a
\* trashed folder is trashed.
WellFormed(kinds, par) ==
    \A e \in DOMAIN par :
        par[e] # RootId =>
            /\ kinds[par[e]].mimeType = FolderMime
            /\ kinds[par[e]].trashed => kinds[e].trashed

\* The store of n entries with these kinds and these parents
MakeStore(kinds, par) ==
    [e \in DOMAIN par |-> [title |-> kinds[e].title, mimeType |-> kinds[e].mimeType,
                           hasExportLinks |-> kinds[e].hasExportLinks,
                           exportLinks |-> kinds[e].exportLinks,
                           trashed |-> kinds[e].trashed, parent |-> par[e]]]

MetadataOf(e) ==
    [mimeType |-> store[e].mimeType, hasExportLinks |-> store[e].hasExportLinks,
     exportLinks |-> store[e].exportLinks]

\* driveName.replace("'", "\\'")
RECURSIVE EscapeApostrophes(_)
EscapeApostrophes(s) ==
    IF s = <<>> THEN <<>>
    ELSE (IF Head(s) = "'" THEN <<"\\", "'">> ELSE <<Head(s)>>) \o EscapeApostrophes(Tail(s))

\* The string literal of a query, as the store reads it
RECURSIVE Unescape(_)
Unescape(s) ==
    IF s = <<>> THEN <<>>
    ELSE IF Len(s) >= 2 /\ s[1] = "\\" /\ s[2] = "'"
    THEN <<"'">> \o Unescape(SubSeq(s, 3, Len(s)))
    ELSE <<Head(s)>> \o Unescape(Tail(s))

\* "'%s' in parents and trashed=false" % driveRootDir
ParentsQuery(driveRootDir) == [kind |-> "parents", id |-> driveRootDir, value |-> <<>>]

\* "title='" + driveNameForQuery + "'"
TitleQuery(driveName) == [kind |-> "title", id |-> RootId, value |-> EscapeApostrophes(driveName)]

\* The entries a query matches: each clause of the query, and nothing else
ListFile(q) ==
    IF q.kind = "parents"
    THEN {e \in DOMAIN store : store[e].parent = q.id /\ ~store[e].trashed}
    ELSE {e \in DOMAIN store : store[e].title = Unescape(q.value)}

RECURSIVE Sorted(_)
Sorted(S) == IF S = {} THEN <<>> ELSE <<Min(S)>> \o Sorted(S \ {Min(S)})

\* GetList() returns the matches in the store's enumeration order, which is
\* the order of the ids: Init draws every numbering of every store, hence
\* every enumeration order that is the same in all listings of a run.
GetList(q) == Sorted(ListFile(q))

(***************************************************************************)
(* downloadEverythingFromDrive, lines 283-289, and                         *)
(* downloadAllFilesInFolder, lines 204-269                                 *)
(***************************************************************************)
NewFrame(hostRootDir, driveRootDir, file_list) ==
    [hostRootDir |-> hostRootDir, driveRootDir |-> driveRootDir, file_list |-> file_list,
     fi |-> 0, driveName |-> <<>>, driveFiles |-> <<>>, di |-> 1, i |-> 0]

Top == stack[Len(stack)]

\* i = i + 1 and the inner loop's move to the next driveFile
Advance(f) == [f EXCEPT !.di = @ + 1, !.i = @ + 1]

InInnerLoop == pc = "running" /\ Top.di <= Len(Top.driveFiles)

CurrentFile == Top.driveFiles[Top.di]

Classify_LinksFirst(md) ==
    IF md.hasExportLinks THEN "file"
    ELSE IF md.mimeType = FolderMime THEN "folder"
    ELSE IF md.mimeType = FormMime THEN "form"
    ELSE "file"

Classify_NoFormBranch(md) ==
    IF md.mimeType = FolderMime THEN "folder" ELSE "file"

\* The if / elif / else of lines 228, 241 and 246
Classify(md) ==
    IF md.mimeType = FolderMime THEN "folder"
    ELSE IF md.mimeType = FormMime THEN "form"
    ELSE "file"

Line(kind, e, path) == [kind |-> kind, title |-> store[e].title, id |-> e, path |-> path]

\* the lines printed only under traceFlag
Trace(line) == IF traceFlag THEN <<line>> ELSE <<>>

Visit(f, e) == visited (+) SetToBag({[cid |-> f.driveRootDir, id |-> e]})

Init ==
    /\ pc = "init"
    /\ error = "none"
    /\ windows = TRUE          \* the titles of Titles hold no separator: splitext is the same on both
    /\ traceFlag = FALSE       \* the default of line 283
    /\ \E n \in 1..MaxEntries :
          \E kinds \in [1..n -> EntryKinds], par \in Forests[n] :
             /\ WellFormed(kinds, par)
             /\ store = MakeStore(kinds, par)
    /\ stack = <<>>
    /\ dirs \in {{}, {HostRoot}}
    /\ files = <<>>
    /\ printed = <<>>
    /\ notices = 0
    /\ visited = EmptyBag
    /\ downloads = {}
    /\ lastFetch = "none"
    /\ arg = <<>>
    /\ res = <<>>

\* downloadEverythingFromDrive up to the first listing of downloadAllFilesInFolder
Start ==
    /\ pc = "init"
    /\ \E authOk \in BOOLEAN :
          IF ~authOk
          THEN /\ pc' = "aborted"
               /\ error' = "AuthenticationError"
               /\ UNCHANGED <<stack, dirs>>
          ELSE IF HostRoot \in dirs \/ HostRoot \in DOMAIN files
          THEN /\ pc' = "aborted"
               /\ error' = "FileExistsError"
               /\ UNCHANGED <<stack, dirs>>
          ELSE /\ dirs' = dirs \cup {HostRoot}
               /\ stack' = <<NewFrame(HostRoot, RootId, GetList(ParentsQuery(RootId)))>>
               /\ pc' = "running"
               /\ UNCHANGED error
    /\ printed' = <<>>
    /\ lastFetch' = "none"
    /\ UNCHANGED <<windows, traceFlag, store, files, notices, visited, downloads, arg, res>>

\* for f in file_list: the title of f and the re-query by title, lines 208-222
NextFile ==
    /\ pc = "running"
    /\ Top.di > Len(Top.driveFiles)
    /\ Top.fi < Len(Top.file_list)
    /\ LET f == Top.file_list[Top.fi + 1]
           driveName == store[f].title
           driveFiles == GetList(TitleQuery(driveName))
       IN /\ stack' = [stack EXCEPT ![Len(stack)] =
                          [@ EXCEPT !.fi = @ + 1, !.driveName = driveName,
                                    !.driveFiles = driveFiles, !.di = 1, !.i = 0]]
          /\ printed' = Trace(Line("Processing", f, <<>>))
    /\ lastFetch' = "none"
    /\ UNCHANGED <<windows, traceFlag, store, pc, error, dirs, files, notices, visited,
                   downloads, arg, res>>

\* the folder branch, lines 228-240: os.makedirs and the recursive call
ProcessFolder ==
    /\ InInnerLoop
    /\ Classify(MetadataOf(CurrentFile)) = "folder"
    /\ \E newFolderName \in
             {Top.hostRootDir \o <<"/">> \o makePcFileName(store[CurrentFile].title, traceFlag)} :
          /\ visited' = Visit(Top, CurrentFile)
          /\ IF newFolderName \in dirs \/ newFolderName \in DOMAIN files
             THEN /\ pc' = "aborted"
                  /\ error' = "FileExistsError"
                  /\ printed' = <<>>
                  /\ UNCHANGED <<stack, dirs>>
             ELSE /\ dirs' = dirs \cup {newFolderName}
                  /\ printed' = Trace(Line("Recursive", CurrentFile, newFolderName))
                  /\ IF Len(stack) >= MaxDepth
                     THEN /\ pc' = "aborted"
                          /\ error' = "RecursionError"
                          /\ UNCHANGED stack
                     ELSE /\ stack' = Append(stack,
                                             NewFrame(newFolderName, CurrentFile,
                                                      GetList(ParentsQuery(CurrentFile))))
                          /\ UNCHANGED <<pc, error>>
    /\ lastFetch' = "none"
    /\ UNCHANGED <<windows, traceFlag, store, files, notices, downloads, arg, res>>

\* the form branch, lines 241-245
ProcessForm ==
    /\ InInnerLoop
    /\ Classify(MetadataOf(CurrentFile)) = "form"
    /\ visited' = Visit(Top, CurrentFile)
    /\ printed' = <<Line("NoFormExport", CurrentFile, <<>>)>>
    /\ notices' = notices + 1
    /\ stack' = [stack EXCEPT ![Len(stack)] = Advance(@)]
    /\ lastFetch' = "none"
    /\ UNCHANGED <<windows, traceFlag, store, pc, error, dirs, files, downloads, arg, res>>

\* What GetContentFile can do: write the file, raise before it writes, or
\* raise having written a part; a path that is a directory cannot be opened
FetchOutcomes(path) ==
    IF path \in dirs THEN {"raised"} ELSE {"ok", "raised", "raised_partial"}

Written(path, e) == [p \in DOMAIN files \cup {path} |-> IF p = path THEN e ELSE files[p]]

\* lines 249-252: the resolved type and the path
Mtas(driveFile) == getMimeTypeAndSuffix(MetadataOf(driveFile), traceFlag)

DownloadFileName(driveFile) ==
    getDownloadFileName(Top.hostRootDir, Top.driveName, Mtas(driveFile).suffix, Top.i, traceFlag)

\* line 254: driveFile.GetContentFile(downloadFileName, mimeType)
GetContentFile(driveFile, downloadFileName, mimeType, outcome) ==
    /\ outcome \in FetchOutcomes(downloadFileName)
    /\ downloads' = downloads \cup
           {[dir |-> Top.hostRootDir, path |-> downloadFileName, id |-> driveFile,
             mimeType |-> mimeType]}
    /\ lastFetch' = outcome
    /\ files' = IF outcome = "raised" THEN files ELSE Written(downloadFileName, driveFile)

ProcessFile_NoExcept ==
    /\ InInnerLoop
    /\ Classify(MetadataOf(CurrentFile)) = "file"
    /\ visited' = Visit(Top, CurrentFile)
    /\ \E downloadFileName \in {DownloadFileName(CurrentFile)},
          outcome \in {"ok", "raised", "raised_partial"} :
          /\ GetContentFile(CurrentFile, downloadFileName, Mtas(CurrentFile).mimeType, outcome)
          /\ IF outcome = "ok"
             THEN /\ printed' = Trace(Line("Downloaded", CurrentFile, downloadFileName))
                  /\ stack' = [stack EXCEPT ![Len(stack)] = Advance(@)]
                  /\ UNCHANGED <<pc, error>>
             ELSE /\ pc' = "aborted"
                  /\ error' = "DownloadError"
                  /\ printed' = <<>>
                  /\ UNCHANGED stack
    /\ UNCHANGED <<windows, traceFlag, store, dirs, notices, arg, res>>

\* the regular-file branch, lines 246-267: try GetContentFile, except: report
ProcessFile ==
    /\ InInnerLoop
    /\ Classify(MetadataOf(CurrentFile)) = "file"
    /\ visited' = Visit(Top, CurrentFile)
    /\ \E downloadFileName \in {DownloadFileName(CurrentFile)},
          outcome \in {"ok", "raised", "raised_partial"} :
          /\ GetContentFile(CurrentFile, downloadFileName, Mtas(CurrentFile).mimeType, outcome)
          /\ IF outcome = "ok"
             THEN /\ printed' = Trace(Line("Downloaded", CurrentFile, downloadFileName))
                  /\ UNCHANGED notices
             ELSE /\ printed' = <<Line("FAILED", CurrentFile, downloadFileName)>>
                  /\ notices' = notices + 1
    /\ stack' = [stack EXCEPT ![Len(stack)] = Advance(@)]
    /\ UNCHANGED <<windows, traceFlag, store, pc, error, dirs, arg, res>>

\* the end of the outer loop: the call returns, and its caller goes on at line 267
Return ==
    /\ pc = "running"
    /\ Top.di > Len(Top.driveFiles)
    /\ Top.fi = Len(Top.file_list)
    /\ IF Len(stack) = 1
       THEN /\ stack' = <<>>
            /\ pc' = "done"
       ELSE /\ stack' = [SubSeq(stack, 1, Len(stack) - 1) EXCEPT ![Len(stack) - 1] = Advance(@)]
            /\ UNCHANGED pc
    /\ printed' = <<>>
    /\ lastFetch' = "none"
    /\ UNCHANGED <<windows, traceFlag, store, error, dirs, files, notices, visited, downloads,
                   arg, res>>

Next ==
    \/ Start
    \/ NextFile
    \/ ProcessFolder
    \/ ProcessForm
    \/ ProcessFile
    \/ Return

Spec == Init /\ [][Next]_vars

(***************************************************************************)
(* The pure functions under check: each specification draws an input in    *)
(* its Init and applies the function in its one action.                    *)
(***************************************************************************)
NoTraversal ==
    /\ store = <<>>
    /\ error = "none"
    /\ stack = <<>>
    /\ dirs = {}
    /\ files = <<>>
    /\ printed = <<>>
    /\ notices = 0
    /\ visited = EmptyBag
    /\ downloads = {}
    /\ lastFetch = "none"

traversalVars ==
    <<store, error, stack, dirs, files, printed, notices, visited, downloads, lastFetch>>

\* makePcFileName, applied to its own result once more
PcAlphabet == IllegalChars \cup {"_", "a"}

InitPc ==
    /\ NoTraversal
    /\ pc = "sanitize"
    /\ windows = TRUE
    /\ traceFlag \in BOOLEAN
    /\ arg \in StringsUpTo(PcAlphabet, MaxLen)
    /\ res = <<>>

SanitizeStep ==
    /\ pc = "sanitize"
    /\ Len(res) < 2
    /\ res' = Append(res, makePcFileName(IF res = <<>> THEN arg ELSE res[Len(res)], traceFlag))
    /\ UNCHANGED <<windows, traceFlag, pc, arg, traversalVars>>

NextPc == SanitizeStep

SpecPc == InitPc /\ [][NextPc]_vars

\* getMimeTypeAndSuffix over every set of export-link keys
ExportKeys ==
    {DocxMime, OdtMime, RtfMime, XlsxMime, OdsMime, CsvMime, TsvMime, PptxMime,
     OdpMime, JpegMime, PngMime, SvgMime}

OtherKeys == {PdfMime, "text/plain"}

NativeMimes == {PdfMime, "text/plain", "image/gif"}

InitResolve ==
    /\ NoTraversal
    /\ pc = "resolve"
    /\ windows = TRUE
    /\ traceFlag \in BOOLEAN
    /\ \E m \in NativeMimes, h \in BOOLEAN, links \in SUBSET (ExportKeys \cup OtherKeys) :
          /\ (~h => links = {})
          /\ arg = [mimeType |-> m, hasExportLinks |-> h, exportLinks |-> links]
    /\ res = <<>>

ResolveStep ==
    /\ pc = "resolve"
    /\ res = <<>>
    /\ res' = <<getMimeTypeAndSuffix(arg, traceFlag)>>
    /\ UNCHANGED <<windows, traceFlag, pc, arg, traversalVars>>

NextResolve == ResolveStep

SpecResolve == InitResolve /\ [][NextResolve]_vars

\* getDownloadFileName over titles, the suffixes the resolver produces, and indices
TitleAlphabet == {"a", ".", "_", ":", "/", "\\"}

ResolverSuffixes ==
    {getMimeTypeAndSuffix([mimeType |-> PdfMime, hasExportLinks |-> h, exportLinks |-> links],
                          FALSE).suffix :
        h \in BOOLEAN, links \in {{}} \cup {{k} : k \in ExportKeys}}

InitPath ==
    /\ NoTraversal
    /\ pc = "path"
    /\ windows \in BOOLEAN
    /\ traceFlag \in BOOLEAN
    /\ \E t \in StringsUpTo(TitleAlphabet, MaxTitleLen), sfx \in ResolverSuffixes, i \in 0..MaxIndex :
          arg = [driveName |-> t, suffix |-> sfx, i |-> i]
    /\ res = <<>>

PathStep ==
    /\ pc = "path"
    /\ res = <<>>
    /\ res' = <<getDownloadFileName(HostRoot, arg.driveName, arg.suffix, arg.i, traceFlag)>>
    /\ UNCHANGED <<windows, traceFlag, pc, arg, traversalVars>>

NextPath == PathStep

SpecPath == InitPath /\ [][NextPath]_vars

(***************************************************************************)
(* Claims about the pure functions                                         *)
(***************************************************************************)
NoIllegalChar(s) == \A k \in 1..Len(s) : s[k] \notin IllegalChars

\* C8: makePcFileName(s) contains no illegal character and has the length of
\* s, and applying makePcFileName to it again returns it unchanged.
C8_SanitizeIdempotent ==
    pc = "sanitize" =>
        /\ Len(res) >= 1 => (NoIllegalChar(res[1]) /\ Len(res[1]) = Len(arg))
        /\ Len(res) >= 2 => res[2] = res[1]

C8_Witness ==
    /\ pc = "sanitize"
    /\ Len(res) = 2
    /\ Len(arg) >= 2
    /\ arg[1] = "|"
    /\ arg[2] = "_"
    /\ res[1] # arg

\* The priority list of the resolver: export key and the suffix it implies
PriorityList ==
    << [key |-> DocxMime, suffix |-> <<".", "d", "o", "c", "x">>],
       [key |-> OdtMime, suffix |-> <<".", "o", "d", "t">>],
       [key |-> RtfMime, suffix |-> <<".", "r", "t", "f">>],
       [key |-> XlsxMime, suffix |-> <<".", "x", "l", "s", "x">>],
       [key |-> OdsMime, suffix |-> <<".", "o", "d", "s">>],
       [key |-> CsvMime, suffix |-> <<".", "c", "s", "v">>],
       [key |-> TsvMime, suffix |-> <<".", "t", "s", "v">>],
       [key |-> PptxMime, suffix |-> <<".", "p", "p", "t", "x">>],
       [key |-> OdpMime, suffix |-> <<".", "o", "d", "p">>],
       [key |-> JpegMime, suffix |-> <<".", "j", "p", "g">>],
       [key |-> PngMime, suffix |-> <<".", "p", "n", "g">>],
       [key |-> SvgMime, suffix |-> <<".", "s", "v", "g">>] >>

FirstMatch(metadata) ==
    LET hits == {k \in 1..Len(PriorityList) : PriorityList[k].key \in metadata.exportLinks}
    IN IF ~metadata.hasExportLinks
       THEN [mimeType |-> metadata.mimeType, suffix |-> <<>>]
       ELSE IF hits = {}
       THEN [mimeType |-> PdfMime, suffix |-> <<".", "p", "d", "f">>]
       ELSE [mimeType |-> PriorityList[Min(hits)].key, suffix |-> PriorityList[Min(hits)].suffix]

\* C5: getMimeTypeAndSuffix returns what the first match over the priority
\* list docx, odt, rtf, xlsx, ods, csv, tsv, pptx, odp, jpg, png, svg returns:
\* the entry's own mimeType and no suffix without exportLinks, .docx whenever
\* the word-processor key is present, and application/pdf, .pdf when none of
\* the twelve keys is present.
C5_ResolveIsFirstMatch ==
    (pc = "resolve" /\ res # <<>>) =>
        /\ res[1] = FirstMatch(arg)
        /\ (arg.hasExportLinks /\ DocxMime \in arg.exportLinks)
              => res[1].suffix = <<".", "d", "o", "c", "x">>
        /\ (arg.hasExportLinks /\ arg.exportLinks \cap ExportKeys = {})
              => res[1] = [mimeType |-> PdfMime, suffix |-> <<".", "p", "d", "f">>]
        /\ ~arg.hasExportLinks => res[1] = [mimeType |-> arg.mimeType, suffix |-> <<>>]

C5_Witness ==
    /\ pc = "resolve"
    /\ res # <<>>
    /\ arg.hasExportLinks
    /\ {DocxMime, OdtMime, PdfMime} \subseteq arg.exportLinks
    /\ res[1].mimeType = DocxMime

\* C4: the file-name component that getDownloadFileName appends to the root
\* directory contains none of the illegal characters.
C4_NameHasNoIllegalChar ==
    (pc = "path" /\ res # <<>>) =>
        NoIllegalChar(SubSeq(res[1], Len(HostRoot) + 2, Len(res[1])))

(***************************************************************************)
(* Claims about the traversal                                              *)
(***************************************************************************)
Cids == {RootId} \cup DOMAIN store

\* how many times entry e went through the body of the inner loop
RECURSIVE SumVisits(_, _)
SumVisits(e, cids) ==
    IF cids = {} THEN 0
    ELSE LET c == Min(cids)
         IN CopiesIn([cid |-> c, id |-> e], visited) + SumVisits(e, cids \ {c})

VisitCount(e) == SumVisits(e, Cids)

\* the step processes the entry the inner loop stands at
Processes(mime) ==
    /\ InInnerLoop
    /\ store[CurrentFile].mimeType \in mime
    /\ visited' # visited

Advanced ==
    [stack EXCEPT ![Len(stack)] = [@ EXCEPT !.di = @ + 1, !.i = @ + 1]]

\* C1: in a complete run every non-trashed entry reachable from the root is
\* processed exactly once (every entry descends from the root, and what is
\* not trashed has no trashed ancestor).
C1_VisitedExactlyOnce ==
    pc = "done" => \A e \in DOMAIN store : ~store[e].trashed => VisitCount(e) = 1

\* C2: a GetContentFile call that raises prints one failure notice with the
\* entry's title and id, and leaves the walk where a successful call leaves
\* it: still running, at the next driveFile of the same frame.
C2_DownloadFailureContinues ==
    [][lastFetch' # "none" =>
          /\ pc = "running" /\ pc' = "running" /\ error' = "none"
          /\ stack' = Advanced
          /\ dirs' = dirs
          /\ lastFetch' # "ok" =>
                /\ notices' = notices + 1
                /\ Len(printed') = 1
                /\ printed'[1].kind = "FAILED"
                /\ printed'[1].title = store[CurrentFile].title
                /\ printed'[1].id = CurrentFile]_vars

C2_Witness ==
    /\ pc = "running"
    /\ lastFetch = "raised"
    /\ notices >= 1
    /\ Top.di <= Len(Top.driveFiles)

\* C3: two different entries downloaded into the same local directory get
\* different paths.
C3_PathsDistinct ==
    \A d1, d2 \in downloads : (d1.dir = d2.dir /\ d1.id # d2.id) => d1.path # d2.path

NewFolderOf(e) == Top.hostRootDir \o <<"/">> \o makePcFileName(store[e].title, traceFlag)

Recursed(e) ==
    /\ Len(stack') = Len(stack) + 1
    /\ SubSeq(stack', 1, Len(stack)) = stack
    /\ stack'[Len(stack')].driveRootDir = e
    /\ stack'[Len(stack')].hostRootDir = NewFolderOf(e)

\* C6 as stated: every processed folder entry gets its subdirectory created
\* and is recursed into, and no download is requested for it (the steps that
\* end at the depth bound are left out).
C6_FolderAlwaysCreatedAndRecursed ==
    [][(Processes({FolderMime}) /\ error' # "RecursionError") =>
          /\ NewFolderOf(CurrentFile) \in dirs'
          /\ Recursed(CurrentFile)
          /\ downloads' = downloads]_vars

\* C6, amended: for every processed folder entry, with or without
\* exportLinks, no download is requested and os.makedirs is called for its
\* sanitized title: when a directory or file of that name exists the run
\* aborts with FileExistsError, otherwise the directory is created and the
\* walk recurses into the entry's id. A download is requested only for
\* entries that are neither folder nor form.
C6_FolderNeverDownloaded ==
    /\ [](\A d \in downloads : store[d.id].mimeType \notin {FolderMime, FormMime})
    /\ [][Processes({FolderMime}) =>
             /\ downloads' = downloads
             /\ files' = files
             /\ lastFetch' = "none"
             /\ IF NewFolderOf(CurrentFile) \in dirs \cup DOMAIN files
                THEN /\ pc' = "aborted"
                     /\ error' = "FileExistsError"
                     /\ dirs' = dirs
                ELSE /\ dirs' = dirs \cup {NewFolderOf(CurrentFile)}
                     /\ \/ Recursed(CurrentFile) /\ pc' = "running"
                        \/ Len(stack) >= MaxDepth /\ error' = "RecursionError"]_vars

C6_Witness ==
    /\ pc = "running"
    /\ Len(stack) >= 2
    /\ store[Top.driveRootDir].mimeType = FolderMime
    /\ store[Top.driveRootDir].hasExportLinks
    /\ Top.hostRootDir \in dirs
    /\ downloads = {}

\* C7: processing a form changes neither directories nor files, requests no
\* download, prints exactly one notice with the form's title and id, and
\* goes on to the next driveFile; a store that holds only a form in the root
\* ends with an empty local root and one notice.
C7_FormSkippedWithNotice ==
    /\ [][Processes({FormMime}) =>
             /\ dirs' = dirs
             /\ files' = files
             /\ downloads' = downloads
             /\ lastFetch' = "none"
             /\ notices' = notices + 1
             /\ printed' = <<[kind |-> "NoFormExport", title |-> store[CurrentFile].title,
                              id |-> CurrentFile, path |-> <<>>]>>
             /\ pc' = "running"
             /\ error' = "none"
             /\ stack' = Advanced]_vars
    /\ []((pc = "done" /\ Len(store) = 1 /\ store[1].mimeType = FormMime /\ ~store[1].trashed)
             => (dirs = {HostRoot} /\ DOMAIN files = {} /\ downloads = {} /\ notices = 1))

C7_Witness ==
    /\ pc = "done"
    /\ Len(store) = 1
    /\ store[1].mimeType = FormMime
    /\ ~store[1].trashed
    /\ notices = 1
    /\ dirs = {HostRoot}

\* the number of folders on the way from entry e up to the root, e included
RECURSIVE FolderLevel(_)
FolderLevel(e) ==
    IF e = RootId THEN 0
    ELSE (IF store[e].mimeType = FolderMime THEN 1 ELSE 0) + FolderLevel(store[e].parent)

NestingDepth == Max({0} \cup {FolderLevel(e) : e \in DOMAIN store})

\* C9: the calls of downloadAllFilesInFolder are never nested deeper than
\* the folders of the store are (the call on the root is at depth 0).
C9_DepthWithinNesting ==
    pc = "running" => Len(stack) - 1 <= NestingDepth

\* C10: every entry processed in a call on container C is a non-trashed
\* direct child of C.
C10_ProcessedAreChildren ==
    \A v \in BagToSet(visited) : store[v.id].parent = v.cid /\ ~store[v.id].trashed

====
